---- MODULE Spec2Model ----
(***************************************************************************)
(* A model of JSONConfigParser (src/jsonconfigparser.py): the layered      *)
(* store of defaults and sections, and read_string, the line scanner that  *)
(* fills it.  Every public operation is one action; read_string is one     *)
(* action that runs its whole while-loop over the lines of its input.      *)
(***************************************************************************)
EXTENDS Integers, Sequences, FiniteSets, TLC

(* ------------------------------ bounds --------------------------------- *)
\* longest input of read_string, in lines
MaxLines == 3
\* longest input of read_string when the input holds headers only
MaxHeaders == 2

(* --------------------------- program constants ------------------------- *)
DEFAULT_SECT == "DEFAULT"
\* the _UNSET sentinel of get's fallback parameter
UNSET == -1
\* Python's None / JSON null
None == 0

\* self._default_section as set by __init__ (default_section=DEFAULT_SECT)
default_section == DEFAULT_SECT

(* ------------------------------ input sets ----------------------------- *)
SectionNames == {"S", "T"}
\* the empty string stands for every falsy section argument ('' or None)
EmptySection == ""
SectionArgs == SectionNames \cup {default_section, EmptySection}
Options == {"a"}
\* the values options are given; None besides as a fallback of get
Values == {1, 2}
Fallbacks == {UNSET, None, 1}

\* a dict: a function from the options it holds to their values
Dicts == UNION {[D -> Values] : D \in SUBSET Options}
EmptyDict == [o \in {} |-> None]

\* the vars argument of get: not given (None), or a dict; its value, 3, is
\* one that no option of the store holds
NoVars == [given |-> FALSE, map |-> EmptyDict]
VarsArgs ==
    {NoVars, [given |-> TRUE, map |-> EmptyDict]}
    \cup {[given |-> TRUE, map |-> [o \in {p} |-> 3]] : p \in Options}

VARIABLES
    defaults,   \* self._defaults
    sections,   \* the keys of self._sections, in insertion order
    sectmap,    \* self._sections: name -> [own: dict, chained: BOOLEAN]
    proxies,    \* the keys of self._proxies
    last        \* the last call: its arguments and its outcome

config == <<defaults, sections, sectmap, proxies>>
vars == <<defaults, sections, sectmap, proxies, last>>

(* ------------------------------ helpers -------------------------------- *)
Range(s) == {s[i] : i \in 1 .. Len(s)}

\* d[option] = value on a dict
DictSet(d, option, value) ==
    [o \in DOMAIN d \cup {option} |-> IF o = option THEN value ELSE d[o]]

\* del d[key] on the ordered keys of a dict
SeqRemove(s, x) == SelectSeq(s, LAMBDA y : y # x)

\* restriction of a function to a smaller domain
Restrict(f, D) == [x \in D |-> f[x]]

\* ChainMap({}, self._defaults): a section created by add_section
NewChained == [own |-> EmptyDict, chained |-> TRUE]
\* self._dict(): a section created by a parsed header
NewPlain == [own |-> EmptyDict, chained |-> FALSE]

\* the maps a lookup in a section's mapping goes through, first to last
SectionMaps(sec, dflt) ==
    IF sec.chained THEN <<sec.own, dflt>> ELSE <<sec.own>>

\* `option in m` for a chain of maps
ChainHas(maps, option) == \E i \in 1 .. Len(maps) : option \in DOMAIN maps[i]

\* m[option] for a chain of maps: the first map that holds it wins
ChainGet(maps, option) ==
    LET i == CHOOSE j \in 1 .. Len(maps) :
                 /\ option \in DOMAIN maps[j]
                 /\ \A k \in 1 .. (j - 1) : option \notin DOMAIN maps[k]
    IN maps[i][option]

\* the outcome of a call: the exception raised ("ok" when it returned), the
\* source line of the raise statement, the returned value, and for
\* read_string the number of the input line it stopped at
Outcome(exc, site, val, at) == [exc |-> exc, site |-> site, val |-> val, at |-> at]
Returned(val) == Outcome("ok", 0, val, 0)
Raised(exc, site) == Outcome(exc, site, None, 0)

Call(op, section, same, option, value, vs, input, out) ==
    [op |-> op, section |-> section, same |-> same, option |-> option,
     value |-> value, vars |-> vs, input |-> input, out |-> out]

(* ------------------------------ Init ----------------------------------- *)
\* JSONConfigParser(): defaults=None, so read_dict is not called
Init ==
    /\ defaults = EmptyDict
    /\ sections = <<>>
    /\ sectmap = [s \in {} |-> NewChained]
    /\ proxies = {default_section}
    /\ last = Call("init", EmptySection, FALSE, "a", None, NoVars, <<>>, Returned(None))

(* --------------------------- pure queries ------------------------------ *)
has_section(section) == section \in DOMAIN sectmap

ConfigLen == Len(sections) + 1

ConfigIter == <<default_section>> \o sections

has_option(section, option) ==
    IF section = EmptySection \/ section = default_section
    THEN option \in DOMAIN defaults
    ELSE IF section \in DOMAIN sectmap
         THEN option \in DOMAIN sectmap[section].own \/ option \in DOMAIN defaults
         ELSE FALSE

(* ------------------------------ add_section ---------------------------- *)
\* add_section without the test of line 151: the section is made anew
add_section_overwrite(section) ==
    IF section = default_section
    THEN /\ last' = Call("add_section", section, FALSE, "a", None, NoVars, <<>>,
                         Raised("ValueError", 149))
         /\ UNCHANGED config
    ELSE /\ sections' = IF section \in DOMAIN sectmap THEN sections
                        ELSE Append(sections, section)
         /\ sectmap' = [s \in DOMAIN sectmap \cup {section} |->
                            IF s = section THEN NewChained ELSE sectmap[s]]
         /\ proxies' = proxies \cup {section}
         /\ last' = Call("add_section", section, FALSE, "a", None, NoVars, <<>>,
                         Returned(None))
         /\ UNCHANGED defaults

add_section(section) ==
    IF section = default_section
    THEN /\ last' = Call("add_section", section, FALSE, "a", None, NoVars, <<>>,
                         Raised("ValueError", 149))
         /\ UNCHANGED config
    ELSE IF section \in DOMAIN sectmap
    THEN /\ last' = Call("add_section", section, FALSE, "a", None, NoVars, <<>>,
                         Raised("DuplicateSectionError", 152))
         /\ UNCHANGED config
    ELSE /\ sections' = Append(sections, section)
         /\ sectmap' = [s \in DOMAIN sectmap \cup {section} |->
                            IF s = section THEN NewChained ELSE sectmap[s]]
         /\ proxies' = proxies \cup {section}
         /\ last' = Call("add_section", section, FALSE, "a", None, NoVars, <<>>,
                         Returned(None))
         /\ UNCHANGED defaults

(* ----------------------------- remove_section -------------------------- *)
\* the effect of remove_section on the store, and whether the section existed
RemoveEffect(section) ==
    IF section \in DOMAIN sectmap
    THEN /\ sections' = SeqRemove(sections, section)
         /\ sectmap' = Restrict(sectmap, DOMAIN sectmap \ {section})
         /\ proxies' = proxies \ {section}
         /\ UNCHANGED defaults
    ELSE UNCHANGED config

\* remove_section that looks for the section after deleting it
remove_section_stale(section) ==
    /\ RemoveEffect(section)
    /\ last' = Call("remove_section", section, FALSE, "a", None, NoVars, <<>>,
                    Returned(FALSE))

remove_section(section) ==
    /\ RemoveEffect(section)
    /\ last' = Call("remove_section", section, FALSE, "a", None, NoVars, <<>>,
                    Returned(section \in DOMAIN sectmap))

\* del config[key]
delitem(key) ==
    IF key = default_section
    THEN /\ last' = Call("delitem", key, FALSE, "a", None, NoVars, <<>>,
                         Raised("ValueError", 187))
         /\ UNCHANGED config
    ELSE /\ RemoveEffect(key)
         /\ last' = Call("delitem", key, FALSE, "a", None, NoVars, <<>>,
                         IF key \in DOMAIN sectmap
                         THEN Returned(None) ELSE Raised("KeyError", 189))

\* config[key] = value: clears the target, then read_dict raises
setitem(key) ==
    /\ IF key = default_section
       THEN /\ defaults' = EmptyDict
            /\ UNCHANGED <<sections, sectmap, proxies>>
       ELSE IF key \in DOMAIN sectmap
       THEN /\ sectmap' = [sectmap EXCEPT ![key].own = EmptyDict]
            /\ UNCHANGED <<defaults, sections, proxies>>
       ELSE UNCHANGED config
    /\ last' = Call("setitem", key, FALSE, "a", None, NoVars, <<>>,
                    Raised("NotImplementedError", 270))

(* --------------------------------- get --------------------------------- *)
\* `same` tells whether the section argument is the very object held in
\* self._default_section: line 217 compares with `is`, and two equal
\* strings need not be one object
\* get on the store with defaults d and sections sm
GetIn(d, sm, section, same, option, fallback, vs) ==
    IF ~same /\ section \notin DOMAIN sm
    THEN Raised("NoSectionError", 222)
    ELSE LET section_dict == IF same THEN <<d>>
                             ELSE SectionMaps(sm[section], d)
             chain == IF vs.given THEN <<vs.map>> \o section_dict
                      ELSE section_dict
         IN IF ChainHas(chain, option) THEN Returned(ChainGet(chain, option))
            ELSE IF fallback = UNSET THEN Raised("NoOptionError", 231)
            ELSE Returned(fallback)

GetOutcome(section, same, option, fallback, vs) ==
    GetIn(defaults, sectmap, section, same, option, fallback, vs)

get(section, same, option, fallback, vs) ==
    /\ last' = Call("get", section, same, option, fallback, vs, <<>>,
                    GetOutcome(section, same, option, fallback, vs))
    /\ UNCHANGED config

(* --------------------------------- set --------------------------------- *)
set(section, option, value) ==
    IF section = EmptySection \/ section = default_section
    THEN /\ defaults' = DictSet(defaults, option, value)
         /\ last' = Call("set", section, FALSE, option, value, NoVars, <<>>,
                         Returned(None))
         /\ UNCHANGED <<sections, sectmap, proxies>>
    ELSE IF section \notin DOMAIN sectmap
    THEN /\ last' = Call("set", section, FALSE, option, value, NoVars, <<>>,
                         Raised("NoSectionError", 251))
         /\ UNCHANGED config
    ELSE /\ sectmap' = [sectmap EXCEPT ![section].own = DictSet(@, option, value)]
         /\ last' = Call("set", section, FALSE, option, value, NoVars, <<>>,
                         Returned(None))
         /\ UNCHANGED <<defaults, sections, proxies>>

(* ----------------------------- read_string ----------------------------- *)
\* The input text, line by line.  What the scanner can tell apart in a line:
\*   header     "[n]" and end of line              (_header_re matches)
\*   badheader  starts with "[", no match          (e.g. "[S" or "[S] # c")
\*   blank      starts with "#" or a line end      (_blank_re always matches)
\*   option     "n = t" then, when g, more text before the line end
\*   badkey     anything else                      (_key_re does not match)
Line(k, n, t, g) == [k |-> k, n |-> n, t |-> t, g |-> g]

\* the JSON text of a value
JsonText(v) == ToString(v)
\* texts in the input: the values, and one that is not JSON
BadJson == "x"
InputTexts == {JsonText(v) : v \in Values} \cup {BadJson}

\* self._json_decoder.raw_decode: the value of a text, when it has one
JsonValid(t) == \E v \in Values : JsonText(v) = t
JsonDecode(t) == CHOOSE v \in Values : JsonText(v) = t

HeaderLines(names) == {Line("header", n, "", FALSE) : n \in names}
\* the lines of the texts that exercise the scanner: one section, S, and
\* DEFAULT
ScanSections == {"S"}
Lines ==
    HeaderLines(ScanSections \cup {default_section})
    \cup {Line("badheader", "", "", FALSE), Line("blank", "", "", FALSE),
          Line("badkey", "", "", FALSE)}
    \cup {Line("option", n, t, FALSE) : n \in Options, t \in InputTexts}
    \cup {Line("option", n, JsonText(1), TRUE) : n \in Options}

\* the header a line stands under: the last header before line i, 0 if none
HeaderOf(lines, i) ==
    LET H == {j \in 1 .. (i - 1) : lines[j].k = "header"}
    IN IF H = {} THEN 0 ELSE CHOOSE j \in H : \A k \in H : k <= j

\* a line that is well-formed after the lines before it
LineGood(lines, i) ==
    LET ln == lines[i] IN
    CASE ln.k = "blank" -> TRUE
      [] ln.k = "header" ->
            \A j \in 1 .. (i - 1) : ~(lines[j].k = "header" /\ lines[j].n = ln.n)
      [] ln.k = "option" ->
            /\ JsonValid(ln.t) /\ ~ln.g
            /\ HeaderOf(lines, i) # 0
            /\ \A j \in (HeaderOf(lines, i) + 1) .. (i - 1) :
                   ~(lines[j].k = "option" /\ lines[j].n = ln.n)
      [] OTHER -> FALSE

\* The texts of n lines over the set L of lines in which every line but the
\* last is well-formed.  The scanner stops at the first line it rejects and
\* never looks at the text behind it, so such text is left out; and a run
\* of comment and empty lines is one blank line.
RECURSIVE InputsOfLen(_, _)
InputsOfLen(L, n) ==
    IF n = 0 THEN {<<>>}
    ELSE {q \in {Append(s, l) : s \in {p \in InputsOfLen(L, n - 1) :
                                             n = 1 \/ LineGood(p, n - 1)},
                                  l \in L} :
             n = 1 \/ q[n].k # "blank" \/ q[n - 1].k # "blank"}
\* the inputs of the scanner
Inputs == UNION {InputsOfLen(Lines, n) : n \in 0 .. MaxLines}
\* the inputs that hold only headers, of every section
HeaderInputs ==
    UNION {InputsOfLen(HeaderLines(SectionNames \cup {default_section}), n) :
               n \in 0 .. MaxHeaders}

Store(d, ss, sm, px) == [defaults |-> d, sections |-> ss, sectmap |-> sm, proxies |-> px]

\* find or create without the test of line 296: DEFAULT is a section
FindOrCreate_nodefault(c, sectname) ==
    IF sectname \in DOMAIN c.sectmap
    THEN c
    ELSE Store(c.defaults,
               Append(c.sections, sectname),
               [s \in DOMAIN c.sectmap \cup {sectname} |->
                    IF s = sectname THEN NewPlain ELSE c.sectmap[s]],
               c.proxies \cup {sectname})

\* find or create without the test of line 298: a header empties its section
FindOrCreate_fresh(c, sectname) ==
    IF sectname = default_section
    THEN c
    ELSE Store(c.defaults,
               IF sectname \in DOMAIN c.sectmap THEN c.sections
               ELSE Append(c.sections, sectname),
               [s \in DOMAIN c.sectmap \cup {sectname} |->
                    IF s = sectname THEN NewPlain ELSE c.sectmap[s]],
               c.proxies \cup {sectname})

\* lines 296-303: find or create the section of a header
FindOrCreate(c, sectname) ==
    IF sectname = default_section \/ sectname \in DOMAIN c.sectmap
    THEN c
    ELSE Store(c.defaults,
               Append(c.sections, sectname),
               [s \in DOMAIN c.sectmap \cup {sectname} |->
                    IF s = sectname THEN NewPlain ELSE c.sectmap[s]],
               c.proxies \cup {sectname})

\* line 328: cursect[optname] = optval; cursect is named by its header
WriteOption(c, cursect, optname, optval) ==
    IF cursect = default_section
    THEN [c EXCEPT !.defaults = DictSet(@, optname, optval)]
    ELSE [c EXCEPT !.sectmap[cursect].own = DictSet(@, optname, optval)]

NoSect == "None"
Stopped(c, exc, site, i) == [c |-> c, out |-> Outcome(exc, site, None, i)]

\* the while-loop of read_string from line i on
RECURSIVE ReadLoop(_, _, _, _, _, _)
ReadLoop(lines, i, c, sections_added, entries_added, cursect) ==
    IF i > Len(lines) THEN [c |-> c, out |-> Returned(None)]
    ELSE LET ln == lines[i] IN
    CASE ln.k = "badheader" -> Stopped(c, "TypeError", 286, i)
      [] ln.k = "header" ->
            IF ln.n \in sections_added
            THEN Stopped(c, "DuplicateSectionError", 291, i)
            ELSE ReadLoop(lines, i + 1, FindOrCreate(c, ln.n),
                          sections_added \cup {ln.n}, {}, ln.n)
      [] ln.k = "blank" ->
            ReadLoop(lines, i + 1, c, sections_added, entries_added, cursect)
      [] ln.k = "badkey" -> Stopped(c, "ParseError", 314, i)
      [] ln.k = "option" ->
            IF ln.n \in entries_added THEN Stopped(c, "TypeError", 321, i)
            ELSE IF ~JsonValid(ln.t) THEN Stopped(c, "JSONDecodeError", 327, i)
            ELSE IF cursect = NoSect THEN Stopped(c, "TypeError", 328, i)
            ELSE LET c2 == WriteOption(c, cursect, ln.n, JsonDecode(ln.t)) IN
                 IF ln.g THEN Stopped(c2, "ParseError", 333, i)
                 ELSE ReadLoop(lines, i + 1, c2, sections_added,
                               entries_added \cup {ln.n}, cursect)

\* read_string that puts the store back when it fails
ReadResult_rollback(c, string) ==
    LET r == ReadLoop(string, 1, c, {}, {}, NoSect)
    IN IF r.out.exc = "ok" THEN r ELSE [c |-> c, out |-> r.out]

\* read_string run on a store
ReadResult(c, string) == ReadLoop(string, 1, c, {}, {}, NoSect)

read_string(string) ==
    LET r == ReadResult(Store(defaults, sections, sectmap, proxies), string) IN
    /\ defaults' = r.c.defaults
    /\ sections' = r.c.sections
    /\ sectmap' = r.c.sectmap
    /\ proxies' = r.c.proxies
    /\ last' = Call("read_string", EmptySection, FALSE, "a", None, NoVars,
                    string, r.out)

(* ------------------------------- Next ---------------------------------- *)
GetArgs ==
    {a \in SectionArgs \X BOOLEAN : a[2] => a[1] = default_section}

\* the store: every operation on every section; the texts read hold headers
Next ==
    \/ \E section \in SectionArgs : add_section(section)
    \/ \E section \in SectionArgs : remove_section(section)
    \/ \E key \in SectionArgs : delitem(key)
    \/ \E key \in SectionArgs : setitem(key)
    \/ \E a \in GetArgs, option \in Options, fallback \in Fallbacks,
          vs \in VarsArgs : get(a[1], a[2], option, fallback, vs)
    \/ \E section \in SectionArgs, option \in Options, value \in Values :
          set(section, option, value)
    \/ \E string \in HeaderInputs : read_string(string)

Spec == Init /\ [][Next]_vars

\* the scanner: texts of every kind of line, read into a store of DEFAULT
\* and S that add_section and set fill as well
ScanArgs == ScanSections \cup {default_section}

NextScan ==
    \/ \E section \in ScanArgs : add_section(section)
    \/ \E section \in ScanArgs, option \in Options, value \in Values :
          set(section, option, value)
    \/ \E string \in Inputs : read_string(string)

SpecScan == Init /\ [][NextScan]_vars

TypeOK ==
    /\ defaults \in Dicts
    /\ Range(sections) = DOMAIN sectmap
    /\ Len(sections) = Cardinality(DOMAIN sectmap)
    /\ \A s \in DOMAIN sectmap : sectmap[s].own \in Dicts /\ sectmap[s].chained \in BOOLEAN
    /\ proxies = DOMAIN sectmap \cup {default_section}

(* ======================= properties of the store ======================== *)
\* the section's own layer; for the default section, defaults
OwnOf(d, sm, s) == IF s = default_section THEN d ELSE sm[s].own

\* position of a name in a sequence without repetitions
Pos(seq, x) == CHOOSE i \in 1 .. Len(seq) : seq[i] = x

\* C1: get on an existing section, however it was created, returns the first
\* hit of the option in vars (if given), then the section's own entries,
\* then defaults.
C1_LookupOrder ==
    (last.op = "get" /\ last.section \in DOMAIN sectmap) =>
        LET own == sectmap[last.section].own
            o == last.option
        IN IF last.vars.given /\ o \in DOMAIN last.vars.map
           THEN last.out = Returned(last.vars.map[o])
           ELSE IF o \in DOMAIN own THEN last.out = Returned(own[o])
           ELSE IF o \in DOMAIN defaults THEN last.out = Returned(defaults[o])
           ELSE last.out.exc # "ok" \/ last.value # UNSET

\* C2: get leaves the configuration alone; it fails with NoSection when the
\* section is neither the default section nor an existing one; and when the
\* section is there but vars, own entries and defaults all lack the option,
\* it fails with NoOption without a fallback and returns the fallback, null
\* included, with one.
C2_Misses ==
    [][last'.op = "get" =>
        /\ UNCHANGED config
        /\ LET s == last'.section
               o == last'.option
               found == \/ last'.vars.given /\ o \in DOMAIN last'.vars.map
                        \/ s # default_section /\ o \in DOMAIN sectmap[s].own
                        \/ o \in DOMAIN defaults
           IN IF s # default_section /\ s \notin DOMAIN sectmap
              THEN last'.out.exc = "NoSectionError"
              ELSE ~found =>
                     IF last'.value = UNSET
                     THEN last'.out.exc = "NoOptionError"
                     ELSE last'.out = Returned(last'.value)]_vars

\* C3: a set that succeeds is read back by the get that follows it with the
\* same section argument and option; set succeeds on an existing section,
\* on the default section name and on an empty section, and otherwise fails
\* with NoSection and changes nothing.  (The default section name is read
\* back through the object held in default_section itself.)
C3_SetThenGet ==
    [][/\ last'.op = "set" =>
            IF last'.section \in DOMAIN sectmap \cup {default_section, EmptySection}
            THEN last'.out.exc = "ok"
            ELSE last'.out.exc = "NoSectionError" /\ UNCHANGED config
       /\ (/\ last.op = "set" /\ last.out.exc = "ok"
           /\ last'.op = "get" /\ last'.section = last.section
           /\ (last'.section = default_section => last'.same)
           /\ last'.option = last.option /\ ~last'.vars.given)
          => last'.out = Returned(last.value)]_vars

\* C4: add_section(s), for s other than the default section name, creates s
\* when it is absent: has_section(s) holds, s has no own entries and every
\* lookup in it falls through to defaults; when s is present, created by
\* add_section or by a parsed header, it raises DuplicateSection; for the
\* default name it raises ValueError; a failing call changes nothing.
C4_AddSection ==
    [][last'.op = "add_section" =>
        LET s == last'.section IN
        IF s = default_section
        THEN last'.out.exc = "ValueError" /\ UNCHANGED config
        ELSE IF s \in DOMAIN sectmap
        THEN last'.out.exc = "DuplicateSectionError" /\ UNCHANGED config
        ELSE /\ last'.out.exc = "ok"
             /\ s \in DOMAIN sectmap'
             /\ sectmap'[s].own = EmptyDict
             /\ \A o \in Options :
                    GetIn(defaults', sectmap', s, FALSE, o, UNSET, NoVars) =
                        IF o \in DOMAIN defaults THEN Returned(defaults[o])
                        ELSE Raised("NoOptionError", 231)
             /\ defaults' = defaults
             /\ \A t \in DOMAIN sectmap : t \in DOMAIN sectmap' /\ sectmap'[t] = sectmap[t]]_vars

\* a second add_section of a section that a parsed header created
C4_Witness ==
    /\ last.op = "add_section" /\ last.out.exc = "DuplicateSectionError"
    /\ ~sectmap[last.section].chained

FirstHeader(lines, name) ==
    LET H == {j \in 1 .. Len(lines) : lines[j].k = "header" /\ lines[j].n = name}
    IN IF H = {} THEN 0 ELSE CHOOSE j \in H : \A k \in H : j <= k

\* C8: the default section name is never among sections(); iteration yields
\* it first and then the sections, without repetition, in the order of their
\* creation: a step keeps the order of the sections that stay, puts the ones
\* it creates behind them, and read_string creates in the order of the
\* headers; the length is 1 + the number of sections.
C8_Iteration ==
    [][/\ default_section \notin Range(sections')
       /\ ConfigIter'[1] = default_section
       /\ Range(ConfigIter') = DOMAIN sectmap' \cup {default_section}
       /\ ConfigLen' = 1 + Cardinality(DOMAIN sectmap')
       /\ Len(ConfigIter') = ConfigLen'
       /\ LET kept == Range(sections) \cap Range(sections')
              made == Range(sections') \ Range(sections)
          IN /\ \A x \in kept, y \in kept :
                    Pos(sections, x) < Pos(sections, y)
                        => Pos(sections', x) < Pos(sections', y)
             /\ \A x \in kept, y \in made : Pos(sections', x) < Pos(sections', y)
             /\ \A x \in made, y \in made :
                    (last'.op = "read_string"
                     /\ FirstHeader(last'.input, x) < FirstHeader(last'.input, y))
                        => Pos(sections', x) < Pos(sections', y)]_vars

\* a text with a DEFAULT header has been read, and it created S after T
C8_Witness ==
    /\ last.op = "read_string" /\ last.out.exc = "ok"
    /\ FirstHeader(last.input, default_section) # 0
    /\ FirstHeader(last.input, "S") # 0
    /\ sections = <<"T", "S">>

(* ====================== properties of the scanner ======================= *)
\* the lines among the first n that write option o of section s: option
\* lines with a JSON value, under a header of s, whose key is new there
Writes(lines, n, s, o) ==
    {i \in 1 .. n :
        /\ lines[i].k = "option" /\ lines[i].n = o /\ JsonValid(lines[i].t)
        /\ HeaderOf(lines, i) # 0
        /\ lines[HeaderOf(lines, i)].n = s
        /\ \A j \in (HeaderOf(lines, i) + 1) .. (i - 1) :
               ~(lines[j].k = "option" /\ lines[j].n = o)}

MaxOf(I) == CHOOSE i \in I : \A j \in I : j <= i

\* the layers of a store: its sections and the default section
Layers(sm) == DOMAIN sm \cup {default_section}

\* layer s holds for o what the lines of W wrote last, or, when W is empty,
\* what it held before
Carried(lines, W, s, o) ==
    LET before == OwnOf(defaults, sectmap, s)
        after == OwnOf(defaults', sectmap', s)
    IN IF W # {}
       THEN o \in DOMAIN after /\ after[o] = JsonDecode(lines[MaxOf(W)].t)
       ELSE /\ o \in DOMAIN after <=> o \in DOMAIN before
            /\ o \in DOMAIN before => after[o] = before[o]

\* C5: in one read_string call a header whose name came earlier in the call
\* raises DuplicateSection, the default name included; an option key that
\* came earlier under the current header raises DuplicateOption; the same
\* key under two headers is accepted.
C5_Duplicates ==
    (last.op = "read_string" /\ last.input # <<>>) =>
        LET lines == last.input
            n == Len(lines)
            h == HeaderOf(lines, n)
            again == \E j \in (h + 1) .. (n - 1) :
                         lines[j].k = "option" /\ lines[j].n = lines[n].n
        IN /\ (lines[n].k = "header" /\ FirstHeader(lines, lines[n].n) < n)
                => last.out.exc = "DuplicateSectionError"
           /\ (lines[n].k = "option" /\ h # 0 /\ again)
                => last.out.exc = "DuplicateOptionError"
           /\ (lines[n].k = "option" /\ h # 0 /\ ~again
               /\ JsonValid(lines[n].t) /\ ~lines[n].g)
                => last.out.exc = "ok"

\* C6: an option line before any header of the call raises
\* MissingSectionHeader, and the option is written nowhere.
C6_MissingHeader ==
    [][(/\ last'.op = "read_string" /\ last'.input # <<>>
        /\ last'.input[Len(last'.input)].k = "option"
        /\ HeaderOf(last'.input, Len(last'.input)) = 0)
       => /\ last'.out.exc = "MissingSectionHeaderError"
          /\ UNCHANGED config]_vars

\* C9: duplicates are tracked per call.  A text whose lines are well-formed
\* by themselves is accepted whatever the configuration already holds; the
\* sections that were there stay, and each of their options holds the value
\* the call wrote to it last, or its earlier value when the call did not
\* write it.
C9_PerCall ==
    [][last'.op = "read_string" =>
        LET lines == last'.input
            n == Len(lines)
        IN /\ (\A i \in 1 .. n : LineGood(lines, i)) => last'.out.exc = "ok"
           /\ last'.out.exc = "ok" =>
                \A s \in Layers(sectmap) :
                    /\ s \in Layers(sectmap')
                    /\ s # default_section =>
                           sectmap'[s].chained = sectmap[s].chained
                    /\ \A o \in Options :
                           Carried(lines, Writes(lines, n, s, o), s, o)]_vars

\* a text with a header of S and an option under it has been accepted, and S
\* is a section that add_section had created
C9_Witness ==
    /\ last.op = "read_string" /\ last.out.exc = "ok"
    /\ Writes(last.input, Len(last.input), "S", "a") # {}
    /\ "S" \in DOMAIN sectmap /\ sectmap["S"].chained
    /\ "a" \in DOMAIN defaults
    /\ defaults["a"] # sectmap["S"].own["a"]

\* what a failed read_string leaves, when the lines up to line m count as
\* the ones that were applied: the sections of their headers are there, the
\* options they wrote hold the values written last, what was there before
\* and was not written is as before, and the store is well-formed
LeftBehind(lines, k, m) ==
    /\ \A i \in 1 .. (k - 1) :
           lines[i].k = "header" => lines[i].n \in Layers(sectmap')
    /\ \A s \in Layers(sectmap'), o \in Options :
           Writes(lines, m, s, o) # {} => Carried(lines, Writes(lines, m, s, o), s, o)
    /\ \A s \in Layers(sectmap) :
           /\ s \in Layers(sectmap')
           /\ s # default_section => sectmap'[s].chained = sectmap[s].chained
           /\ \A o \in DOMAIN OwnOf(defaults, sectmap, s) :
                  Carried(lines, Writes(lines, m, s, o), s, o)
    /\ TypeOK'

\* C10 as stated: after a failed read_string what the lines before the
\* failing line created and wrote is there, and everything else is as it
\* was before the call.
C10_NoRollbackBeforeFailingLine ==
    [][(last'.op = "read_string" /\ last'.out.exc # "ok") =>
        LeftBehind(last'.input, last'.out.at, last'.out.at - 1)]_vars

\* C10, amended: after a failed read_string what the lines before the
\* failing line created and wrote is there, the option of the failing line
\* is written too when the line fails on the text behind its value, and
\* everything else is as it was before the call; the configuration stays
\* well-formed.
C10_NoRollback ==
    [][(last'.op = "read_string" /\ last'.out.exc # "ok") =>
        LeftBehind(last'.input, last'.out.at, last'.out.at)]_vars

\* a read_string has failed at its third line, after it created S and wrote
\* an option of S
C10_Witness ==
    /\ last.op = "read_string" /\ last.out.exc # "ok" /\ last.out.at = 3
    /\ Writes(last.input, 2, "S", "a") # {}
    /\ "S" \in DOMAIN sectmap /\ ~sectmap["S"].chained
    /\ "a" \in DOMAIN sectmap["S"].own

====
